---- MODULE Spec2Model ----
(***************************************************************************)
(* State-machine model of FXAnalysisEngine (src/fx_analysis_python.py):    *)
(* extract_points_from_report1, filter_analysis_period,                    *)
(* calculate_weekly_profit_factor and select_optimal_points, in the order  *)
(* perform_analysis calls them.                                            *)
(*                                                                         *)
(* Encoding of the Python values:                                          *)
(*  - a str is the sequence of its characters, so that endswith,           *)
(*    startswith and split(':') are computed, not assumed;                 *)
(*  - the Japanese literals of the source are written in ASCII:            *)
(*      "ProfitEff" / "WinRate" / "TimeEff" / "MaxProfit" are the four     *)
(*      target_patterns (rieki-kouritsu, shouritsu-juushi, jikan-kouritsu, *)
(*      saidai-rieki point), "ProfitEff_STD" is the report-2 name the      *)
(*      pattern_mapping gives the first, and "Mon".."Fri" are the entries  *)
(*      of days_of_week;                                                   *)
(*  - a CSV cell is [kind, half]: kind "nan" (empty cell, pd.isna),        *)
(*    "num" (a number, worth half/2, so that 1.5 and 20.5 exist) or "str"  *)
(*    (text float() cannot parse);                                         *)
(*  - pips are integers; a profit factor is the exact fraction             *)
(*    [num, den] with den > 0, compared by cross-multiplication, and the   *)
(*    literal 999.9 is 9999/10, 1.3 is 13/10;                              *)
(*  - instants are hours relative to midnight of the day of the run.       *)
(***************************************************************************)
EXTENDS Integers, Sequences, FiniteSets, TLC

VARIABLES
    settings,      \* self.settings
    pc,            \* position of perform_analysis: "extract", "aggregate", "select", "done", "error"
    columns,       \* the rank columns report1_df has
    report1,       \* rows of report1_df iterated so far (row_index = position - 1)
    points,        \* extract_points_from_report1: the list `points`
    report2,       \* rows of report2_df consumed so far
    weekly_pf,     \* calculate_weekly_profit_factor: the dict `weekly_pf`, keyed <<name, day, value>>
    results        \* select_optimal_points: the dict `results` once returned

vars == <<settings, pc, columns, report1, points, report2, weekly_pf, results>>

----------------------------------------------------------------------------
(* Bounds of the model *)

MaxRows == 2        \* rows of report 1
MaxRecords == 2     \* rows of report 2 in the runs of the whole pipeline
MaxAggRecords == 3  \* rows of report 2 in the runs of the aggregation alone
MaxCutRecords == 3  \* rows of report 2 in the runs of the selection

----------------------------------------------------------------------------
(* Python helpers *)

Abs(n) == IF n < 0 THEN -n ELSE n

\* int(x) for the float half/2: truncation toward zero
IntOfHalf(h) == IF h >= 0 THEN h \div 2 ELSE -((-h) \div 2)

endswith(s, suffix) ==
    /\ Len(s) >= Len(suffix)
    /\ SubSeq(s, Len(s) - Len(suffix) + 1, Len(s)) = suffix

startswith(s, prefix) ==
    /\ Len(s) >= Len(prefix)
    /\ SubSeq(s, 1, Len(prefix)) = prefix

JPY == <<"J", "P", "Y">>

\* line 194: currency.endswith('JPY') or currency.startswith('JPY')
IsCrossYen(currency) == endswith(currency, JPY) \/ startswith(currency, JPY)

\* s.split(sep): the pieces of s between the separators
RECURSIVE SplitFrom(_, _, _, _)
SplitFrom(s, sep, i, cur) ==
    IF i > Len(s) THEN <<cur>>
    ELSE IF s[i] = sep THEN <<cur>> \o SplitFrom(s, sep, i + 1, <<>>)
    ELSE SplitFrom(s, sep, i + 1, Append(cur, s[i]))

split(s, sep) == SplitFrom(s, sep, 1, <<>>)

Digits == {"0", "1", "2", "3", "4", "5", "6", "7", "8", "9"}

DigitVal(c) ==
    CASE c = "0" -> 0 [] c = "1" -> 1 [] c = "2" -> 2 [] c = "3" -> 3 [] c = "4" -> 4
      [] c = "5" -> 5 [] c = "6" -> 6 [] c = "7" -> 7 [] c = "8" -> 8 [] c = "9" -> 9

\* int(s) succeeds on a non-empty run of digits (the only texts the model feeds it)
IntParses(s) == Len(s) > 0 /\ \A i \in 1..Len(s) : s[i] \in Digits

RECURSIVE IntOfStr(_)
IntOfStr(s) ==
    IF Len(s) = 0 THEN 0
    ELSE 10 * IntOfStr(SubSeq(s, 1, Len(s) - 1)) + DigitVal(s[Len(s)])

----------------------------------------------------------------------------
(* __init__ *)

target_patterns == <<"ProfitEff", "WinRate", "TimeEff", "MaxProfit">>

TargetSet == {target_patterns[i] : i \in 1..Len(target_patterns)}

\* lines 50-59
pattern_mapping(pattern) ==
    CASE pattern = "ProfitEff" -> "ProfitEff_STD"
      [] pattern = "ProfitEffUS" -> "ProfitEff_STD_US"
      [] OTHER -> pattern

days_of_week == <<"Mon", "Tue", "Wed", "Thu", "Fri">>

DaySet == {days_of_week[i] : i \in 1..Len(days_of_week)}

\* 1.3, the default pf_threshold
DefaultThreshold == [num |-> 13, den |-> 10]

\* the default analysis_weeks
DefaultWeeks == 26

\* the default max_results
DefaultMaxResults == 20

----------------------------------------------------------------------------
(* Cells and rows of report 1 *)

NaN == [kind |-> "nan", half |-> 0]
Num(h) == [kind |-> "num", half |-> h]
Text == [kind |-> "str", half |-> 0]

notna(cell) == cell.kind # "nan"

\* line 198: pattern in row and pd.notna(row[pattern])
HasRank(row, pattern) == pattern \in columns /\ notna(row.rank[pattern])

\* line 199: float(row[pattern]) raises ValueError on text
FloatRaises(cell) == cell.kind = "str"

RankInRangeUpTo21(cell) == 2 * 1 <= cell.half /\ cell.half <= 2 * 21

\* line 200: 1 <= ranking <= 20
RankInRange(cell) == 2 * 1 <= cell.half /\ cell.half <= 2 * 20

\* the first pattern, in target_patterns order, whose rank cell makes float() raise; 0 if none
FirstRaising(row) ==
    LET bad == {i \in 1..Len(target_patterns) :
                    HasRank(row, target_patterns[i]) /\ FloatRaises(row.rank[target_patterns[i]])}
    IN IF bad = {} THEN 0 ELSE CHOOSE i \in bad : \A j \in bad : i <= j

\* lines 212-226 (the win-rate fields and `details` are carried along and read by
\* nothing the model covers)
point_info(row, idx, pattern) ==
    [ row_index |-> idx,
      point_name |-> pattern,
      report2_point_name |-> pattern_mapping(pattern),
      ranking |-> IntOfHalf(row.rank[pattern].half),
      currency |-> row.currency,
      direction |-> row.direction,
      entry_time |-> row.entry_time,
      close_time |-> row.close_time ]

\* lines 197-227 for the patterns target_patterns[from..upto] of one row
RECURSIVE PatternPoints(_, _, _, _)
PatternPoints(row, idx, from, upto) ==
    IF from > upto THEN <<>>
    ELSE LET pattern == target_patterns[from]
             here == IF HasRank(row, pattern) /\ RankInRange(row.rank[pattern])
                     THEN <<point_info(row, idx, pattern)>>
                     ELSE <<>>
         IN here \o PatternPoints(row, idx, from + 1, upto)

RowPointsTwice(row, idx, upto) ==
    IF ~IsCrossYen(row.currency) THEN <<>>
    ELSE PatternPoints(row, idx, 1, upto) \o PatternPoints(row, idx, 1, upto)

\* lines 193-227: what one row appends to `points` when it is read to the pattern `upto`
RowPoints(row, idx, upto) ==
    IF ~IsCrossYen(row.currency) THEN <<>> ELSE PatternPoints(row, idx, 1, upto)

\* the pairs <<i, j>> of positions of s whose elements satisfy the strict order of a sort key
\* are given as `before`. list.sort is stable: an element lands after every element that
\* strictly precedes it and after the equal ones that stood before it
StableSort(s, before) ==
    LET n == Len(s)
        Pos(i) == Cardinality({j \in 1..n : <<j, i>> \in before})
                  + Cardinality({j \in 1..(i - 1) :
                                    <<j, i>> \notin before /\ <<i, j>> \notin before})
                  + 1
    IN [k \in 1..n |-> s[CHOOSE i \in 1..n : Pos(i) = k]]

RankingBefore(a, b) == a.ranking < b.ranking

\* line 230: points.sort(key=lambda x: x['ranking'])
SortPoints(ps) ==
    StableSort(ps, {ij \in (1..Len(ps)) \X (1..Len(ps)) : RankingBefore(ps[ij[1]], ps[ij[2]])})

----------------------------------------------------------------------------
(* extract_points_from_report1, one step per row of report1_df *)

\* the row raises at line 199: it is cross-yen and one of its rank cells is text
RowRaises(row) == IsCrossYen(row.currency) /\ FirstRaising(row) # 0

\* lines 191-227, a row that is read through
extract_row(row) ==
    /\ pc = "extract"
    /\ Len(report1) < MaxRows
    /\ ~RowRaises(row)
    /\ report1' = Append(report1, row)
    /\ points' = points \o RowPoints(row, Len(report1), Len(target_patterns))
    /\ UNCHANGED <<settings, pc, columns, report2, weekly_pf, results>>

\* lines 191-199, a row whose rank cell makes float() raise ValueError: the exception
\* leaves extract_points_from_report1 and perform_analysis catches it (line 580)
extract_raise(row) ==
    /\ pc = "extract"
    /\ Len(report1) < MaxRows
    /\ RowRaises(row)
    /\ report1' = Append(report1, row)
    /\ points' = points \o RowPoints(row, Len(report1), FirstRaising(row) - 1)
    /\ pc' = "error"
    /\ UNCHANGED <<settings, columns, report2, weekly_pf, results>>

\* lines 229-233: the loop is over, the list is sorted and returned
extract_return ==
    /\ pc = "extract"
    /\ points' = SortPoints(points)
    /\ pc' = "aggregate"
    /\ UNCHANGED <<settings, columns, report1, report2, weekly_pf, results>>

----------------------------------------------------------------------------
(* filter_analysis_period and calculate_weekly_profit_factor *)

\* hours in timedelta(weeks=1)
HoursPerWeek == 168

\* datetime.now(), in hours after midnight of the day of the run
now == 9

\* line 172: cutoff_date = datetime.now() - timedelta(weeks=weeks)
cutoff_date(weeks) == now - weeks * HoursPerWeek

\* line 174: report2_df['trade date'] >= cutoff_date
InWindow(row) == row.date >= cutoff_date(settings.analysis_weeks)

\* line 253: float(row[pips]) if pd.notna(row[pips]) else 0.0; raises ValueError on text
PipsRaises(row) == row.pips.kind = "str"

profit_pips_of(row) == IF row.pips.kind = "num" THEN row.pips.val ELSE 0

\* lines 250-252: the key of the bucket a row goes to; int() truncates the point value
KeyOf(row) == <<row.name, row.day, IntOfHalf(row.value)>>

\* 999.9
Sentinel == [num |-> 9999, den |-> 10]

Zero == [num |-> 0, den |-> 1]

PfEq(a, b) == a.num * b.den = b.num * a.den

PfGe(a, b) == a.num * b.den >= b.num * a.den

PfGt(a, b) == a.num * b.den > b.num * a.den

ProfitFactorNoZeroCase(total_profit, total_loss) ==
    IF total_loss = 0 THEN Sentinel ELSE [num |-> total_profit, den |-> total_loss]

ProfitFactorNoSentinel(total_profit, total_loss) ==
    IF total_loss = 0 THEN Zero ELSE [num |-> total_profit, den |-> total_loss]

\* lines 279-282
ProfitFactor(total_profit, total_loss) ==
    IF total_loss = 0
    THEN (IF total_profit > 0 THEN Sentinel ELSE Zero)
    ELSE [num |-> total_profit, den |-> total_loss]

\* lines 261-267
NewBucket(profit_pips) ==
    [total_profit |-> 0, total_loss |-> 0, trades |-> 0, pf |-> Zero,
     profit_pips |-> profit_pips]

FoldInSigned(target, profit_pips) ==
    LET total_profit == target.total_profit + profit_pips
        total_loss == target.total_loss
    IN [total_profit |-> total_profit,
        total_loss |-> total_loss,
        trades |-> target.trades + 1,
        pf |-> ProfitFactor(total_profit, total_loss),
        profit_pips |-> profit_pips]

\* lines 269-282
FoldIn(target, profit_pips) ==
    LET total_profit == IF profit_pips > 0 THEN target.total_profit + profit_pips
                        ELSE target.total_profit
        total_loss == IF profit_pips > 0 THEN target.total_loss
                      ELSE target.total_loss + Abs(profit_pips)
    IN [total_profit |-> total_profit,
        total_loss |-> total_loss,
        trades |-> target.trades + 1,
        pf |-> ProfitFactor(total_profit, total_loss),
        profit_pips |-> profit_pips]

\* lines 250-282: weekly_pf after one row
Folded(pf_map, row) ==
    LET key == KeyOf(row)
        profit_pips == profit_pips_of(row)
        target == IF key \in DOMAIN pf_map THEN pf_map[key] ELSE NewBucket(profit_pips)
    IN [k \in DOMAIN pf_map \cup {key} |->
            IF k = key THEN FoldIn(target, profit_pips) ELSE pf_map[k]]

\* line 174: a row before the cutoff is filtered out and never iterated
\* (max_rows bounds len(report2_df) in all three steps)
filter_drop(row, max_rows) ==
    /\ pc = "aggregate"
    /\ Len(report2) < max_rows
    /\ ~InWindow(row)
    /\ report2' = Append(report2, row)
    /\ UNCHANGED <<settings, pc, columns, report1, points, weekly_pf, results>>

\* lines 249-282, one row of filtered_df
aggregate_row(row, max_rows) ==
    /\ pc = "aggregate"
    /\ Len(report2) < max_rows
    /\ InWindow(row)
    /\ ~PipsRaises(row)
    /\ report2' = Append(report2, row)
    /\ weekly_pf' = Folded(weekly_pf, row)
    /\ UNCHANGED <<settings, pc, columns, report1, points, results>>

\* line 253 raising ValueError on a text cell: perform_analysis catches it (line 580)
aggregate_raise(row, max_rows) ==
    /\ pc = "aggregate"
    /\ Len(report2) < max_rows
    /\ InWindow(row)
    /\ PipsRaises(row)
    /\ report2' = Append(report2, row)
    /\ pc' = "error"
    /\ UNCHANGED <<settings, columns, report1, points, weekly_pf, results>>

\* lines 284-285
aggregate_return ==
    /\ pc = "aggregate"
    /\ pc' = "select"
    /\ UNCHANGED <<settings, columns, report1, points, report2, weekly_pf, results>>

----------------------------------------------------------------------------
(* select_optimal_points *)

\* lines 338-339: the unpacking of map(int, time_str.split(':')) into three names succeeds
TimeParses(time_str) ==
    LET parts == split(time_str, ":")
    IN Len(parts) = 3 /\ \A i \in 1..3 : IntParses(parts[i])

time_to_minutes_nowrap(time_str) ==
    LET parts == split(time_str, ":")
    IN IntOfStr(parts[1]) * 60 + IntOfStr(parts[2])

\* lines 338-343
time_to_minutes(time_str) ==
    LET parts == split(time_str, ":")
        hours == IF IntOfStr(parts[1]) = 0 THEN 24 ELSE IntOfStr(parts[1])
    IN hours * 60 + IntOfStr(parts[2])

BucketKeyUnmapped(point, day) == <<point.point_name, day, point.ranking>>

\* lines 305-310: the bucket a point is looked up under
BucketKey(point, day) == <<point.report2_point_name, day, point.ranking>>

\* line 314
Qualifies(ranking_data) == PfGe(ranking_data.pf, settings.pf_threshold)

\* lines 315-327
optimal_point(point, ranking_data) ==
    [ currency |-> point.currency,
      entry_time |-> point.entry_time,
      close_time |-> point.close_time,
      direction |-> point.direction,
      ranking |-> point.ranking,
      profit_pips |-> ranking_data.profit_pips,
      pf |-> ranking_data.pf,
      trades |-> ranking_data.trades,
      total_profit |-> ranking_data.total_profit,
      total_loss |-> ranking_data.total_loss,
      point_details |-> point ]

\* lines 304-328: results[day][pattern] after the loop over report1_points
RECURSIVE Appended(_, _, _, _, _)
Appended(report1_points, pf_map, day, pattern, i) ==
    IF i > Len(report1_points) THEN <<>>
    ELSE LET point == report1_points[i]
             key == BucketKey(point, day)
             here == IF /\ point.point_name = pattern
                        /\ key \in DOMAIN pf_map
                        /\ Qualifies(pf_map[key])
                     THEN <<optimal_point(point, pf_map[key])>>
                     ELSE <<>>
         IN here \o Appended(report1_points, pf_map, day, pattern, i + 1)

PfBefore(a, b) == PfGt(a.pf, b.pf)

SortByPfTiesReversed(entries) ==
    LET n == Len(entries)
        rev == [i \in 1..n |-> entries[n + 1 - i]]
    IN StableSort(rev, {ij \in (1..n) \X (1..n) : PfBefore(rev[ij[1]], rev[ij[2]])})

SortByPfNot(entries) == entries

\* line 333: sort(key=pf, reverse=True); reverse keeps the order of equal elements
SortByPf(entries) ==
    StableSort(entries, {ij \in (1..Len(entries)) \X (1..Len(entries)) :
                            PfBefore(entries[ij[1]], entries[ij[2]])})

TruncateNot(entries, max_results) == entries

\* line 335: entries[:max_results], a Python slice (a negative stop counts from the end)
Truncate(entries, max_results) ==
    LET n == Len(entries)
        stop == IF max_results >= 0
                THEN (IF max_results < n THEN max_results ELSE n)
                ELSE (IF n + max_results > 0 THEN n + max_results ELSE 0)
    IN SubSeq(entries, 1, stop)

TimeBefore(a, b) == time_to_minutes(a.entry_time) < time_to_minutes(b.entry_time)

SortByTimeTiesReversed(entries) ==
    LET n == Len(entries)
        rev == [i \in 1..n |-> entries[n + 1 - i]]
    IN StableSort(rev, {ij \in (1..n) \X (1..n) : TimeBefore(rev[ij[1]], rev[ij[2]])})

\* line 346
SortByTime(entries) ==
    StableSort(entries, {ij \in (1..Len(entries)) \X (1..Len(entries)) :
                            TimeBefore(entries[ij[1]], entries[ij[2]])})

\* line 335: filtered_points of one (day, pattern)
filtered_points(report1_points, pf_map, day, pattern) ==
    Truncate(SortByPf(Appended(report1_points, pf_map, day, pattern, 1)),
             settings.max_results)

\* line 346 raises when time_to_minutes cannot unpack an entry time of a kept point
SelectRaises(report1_points, pf_map) ==
    \E day \in DaySet, pattern \in TargetSet :
        LET kept == filtered_points(report1_points, pf_map, day, pattern)
        IN \E i \in 1..Len(kept) : ~TimeParses(kept[i].entry_time)

\* lines 298-350
select_optimal_points ==
    /\ pc = "select"
    /\ ~SelectRaises(points, weekly_pf)
    /\ results' = [day \in DaySet |-> [pattern \in TargetSet |->
                        SortByTime(filtered_points(points, weekly_pf, day, pattern))]]
    /\ pc' = "done"
    /\ UNCHANGED <<settings, columns, report1, points, report2, weekly_pf>>

\* line 339 raising ValueError inside the sort: perform_analysis catches it (line 580)
select_raise ==
    /\ pc = "select"
    /\ SelectRaises(points, weekly_pf)
    /\ pc' = "error"
    /\ UNCHANGED <<settings, columns, report1, points, report2, weekly_pf, results>>

----------------------------------------------------------------------------
(* Inputs: the texts, rows and settings the runs are fed.                   *)
(* Every trade date parses (pd.to_datetime, line 173) and every point      *)
(* value is a number (int(), line 252); the win-rate cells, which only     *)
(* parse_percent reads, are left out of the rows.                          *)

S_USDJPY == <<"U", "S", "D", "J", "P", "Y">>
S_JPYCHF == <<"J", "P", "Y", "C", "H", "F">>
S_EURUSD == <<"E", "U", "R", "U", "S", "D">>
S_usdjpy == <<"u", "s", "d", "j", "p", "y">>
S_XJPYX == <<"X", "J", "P", "Y", "X">>

T_2330 == <<"2", "3", ":", "3", "0", ":", "0", "0">>
T_0015 == <<"0", "0", ":", "1", "5", ":", "0", "0">>
T_0900 == <<"0", "9", ":", "0", "0", ":", "0", "0">>
T_0100 == <<"0", "1", ":", "0", "0", ":", "0", "0">>
\* an entry time written without seconds
T_2330_short == <<"2", "3", ":", "3", "0">>

Ranks(pe, wr, te, mp) ==
    [pattern \in TargetSet |->
        CASE pattern = "ProfitEff" -> pe
          [] pattern = "WinRate" -> wr
          [] pattern = "TimeEff" -> te
          [] pattern = "MaxProfit" -> mp]

Row(currency, rank, entry_time) ==
    [currency |-> currency, direction |-> "Long", entry_time |-> entry_time,
     close_time |-> T_0100, rank |-> rank]

\* report-1 rows for the extraction runs: ranks 1, 20, 21, 20.5, 1.5, 0, 0.5, empty and
\* text cells, on cross-yen and other instruments
ExtCurrencies == {S_USDJPY, S_JPYCHF, S_EURUSD, S_usdjpy, S_XJPYX}

ExtRanks ==
    { Ranks(Num(2), Num(40), NaN, Num(42)),
      Ranks(Num(41), Num(3), Num(0), Num(4)),
      Ranks(Num(2), Text, Num(4), Num(1)),
      Ranks(Text, NaN, NaN, Num(6)) }

ExtRows == {Row(c, r, T_0900) : c \in ExtCurrencies, r \in ExtRanks}

ExtColumns == {TargetSet, TargetSet \ {"MaxProfit"}}

\* report-1 rows for the whole pipeline
SelRows ==
    { Row(S_USDJPY, Ranks(Num(2), NaN, NaN, NaN), T_2330),
      Row(S_USDJPY, Ranks(Num(2), NaN, NaN, NaN), T_0015),
      Row(S_USDJPY, Ranks(Num(4), NaN, NaN, NaN), T_0015),
      Row(S_USDJPY, Ranks(Num(2), Num(2), NaN, NaN), T_0900),
      Row(S_USDJPY, Ranks(Num(4), NaN, NaN, NaN), T_2330_short),
      Row(S_USDJPY, Ranks(NaN, Text, NaN, NaN), T_0900) }

Pips(n) == [kind |-> "num", val |-> n]
PipsNaN == [kind |-> "nan", val |-> 0]
PipsText == [kind |-> "str", val |-> 0]

Record(name, day, value, date, pips) ==
    [name |-> name, day |-> day, value |-> value, date |-> date, pips |-> pips]

\* report-2 rows for the aggregation runs: one bucket fed wins, losses, zero, empty and
\* text cells (and reached through the point value 1.5 too), a second bucket, and trade
\* dates on both sides of the cutoff
AggRecords ==
    {Record("ProfitEff_STD", "Mon", 2, -24, p) :
        p \in {Pips(10), Pips(20), Pips(-5), Pips(0), Pips(9999), Pips(-10), PipsNaN, PipsText}}
    \cup { Record("ProfitEff_STD", "Mon", 3, -24, Pips(10)),
           Record("WinRate", "Tue", 4, -24, Pips(10)),
           Record("WinRate", "Tue", 4, -24, Pips(-5)),
           Record("ProfitEff_STD", "Mon", 2, -(DefaultWeeks * HoursPerWeek), Pips(10)),
           Record("ProfitEff_STD", "Mon", 2, -(DefaultWeeks * HoursPerWeek) + 24, Pips(20)),
           Record("ProfitEff_STD", "Mon", 2, -(DefaultWeeks * HoursPerWeek) - 24, PipsText) }

\* report-2 rows for the whole pipeline: pf 1.3 is 13/10
SelRecords ==
    { Record("ProfitEff_STD", "Mon", 2, -24, Pips(13)),
      Record("ProfitEff_STD", "Mon", 2, -24, Pips(-10)),
      Record("ProfitEff_STD", "Mon", 4, -24, Pips(13)),
      Record("ProfitEff", "Mon", 2, -24, Pips(13)),
      Record("WinRate", "Tue", 2, -24, Pips(13)),
      Record("WinRate", "Tue", 2, -(DefaultWeeks * HoursPerWeek), Pips(13)),
      Record("WinRate", "Tue", 2, -24, PipsText) }

\* tables for the runs of the selection: two instruments sharing the entry time 00:15,
\* and records that give the buckets of rank 1 and rank 2 different profit factors
\* (13 and -10 give 1.3, 13 alone gives 999.9)
CutRows ==
    { Row(S_USDJPY, Ranks(Num(2), NaN, NaN, NaN), T_2330),
      Row(S_USDJPY, Ranks(Num(2), NaN, NaN, NaN), T_0015),
      Row(S_JPYCHF, Ranks(Num(4), NaN, NaN, NaN), T_0015),
      Row(S_USDJPY, Ranks(Num(4), NaN, NaN, NaN), T_2330_short),
      Row(S_USDJPY, Ranks(Text, NaN, NaN, NaN), T_0900) }

CutRecords ==
    { Record("ProfitEff_STD", "Mon", 2, -24, Pips(13)),
      Record("ProfitEff_STD", "Mon", 2, -24, Pips(-10)),
      Record("ProfitEff_STD", "Mon", 4, -24, Pips(13)),
      Record("ProfitEff_STD", "Mon", 4, -(DefaultWeeks * HoursPerWeek), Pips(-10)),
      Record("ProfitEff_STD", "Mon", 4, -24, PipsText) }

MaxResultsChoices == {-1, 0, 1, 2}

----------------------------------------------------------------------------
(* Specifications *)

\* lines 34-70: the engine as constructed, before perform_analysis reads anything
InitWith(max_results_choices, column_choices, start) ==
    /\ settings \in {[analysis_weeks |-> DefaultWeeks,
                      pf_threshold |-> DefaultThreshold,
                      max_results |-> m] : m \in max_results_choices}
    /\ pc = start
    /\ columns \in column_choices
    /\ report1 = <<>>
    /\ points = <<>>
    /\ report2 = <<>>
    /\ weekly_pf = <<>>
    /\ results = <<>>

Init == InitWith(MaxResultsChoices, {TargetSet}, "extract")

\* perform_analysis, lines 539-546
Next ==
    \/ \E row \in SelRows : extract_row(row)
    \/ \E row \in SelRows : extract_raise(row)
    \/ extract_return
    \/ \E row \in SelRecords : filter_drop(row, MaxRecords)
    \/ \E row \in SelRecords : aggregate_row(row, MaxRecords)
    \/ \E row \in SelRecords : aggregate_raise(row, MaxRecords)
    \/ aggregate_return
    \/ select_optimal_points
    \/ select_raise

Spec == Init /\ [][Next]_vars

\* extract_points_from_report1 alone, on the wider set of rows
InitExt == InitWith({DefaultMaxResults}, ExtColumns, "extract")

NextExt ==
    \/ \E row \in ExtRows : extract_row(row)
    \/ \E row \in ExtRows : extract_raise(row)
    \/ extract_return

SpecExt == InitExt /\ [][NextExt]_vars

\* calculate_weekly_profit_factor alone, on the wider set of rows
InitAgg == InitWith({DefaultMaxResults}, {TargetSet}, "aggregate")

NextAgg ==
    \/ \E row \in AggRecords : filter_drop(row, MaxAggRecords)
    \/ \E row \in AggRecords : aggregate_row(row, MaxAggRecords)
    \/ \E row \in AggRecords : aggregate_raise(row, MaxAggRecords)
    \/ aggregate_return

SpecAgg == InitAgg /\ [][NextAgg]_vars

\* perform_analysis on the tables of the selection runs, with one more row of report 2
NextCut ==
    \/ \E row \in CutRows : extract_row(row)
    \/ \E row \in CutRows : extract_raise(row)
    \/ extract_return
    \/ \E row \in CutRecords : filter_drop(row, MaxCutRecords)
    \/ \E row \in CutRecords : aggregate_row(row, MaxCutRecords)
    \/ \E row \in CutRecords : aggregate_raise(row, MaxCutRecords)
    \/ aggregate_return
    \/ select_optimal_points
    \/ select_raise

SpecCut == Init /\ [][NextCut]_vars

----------------------------------------------------------------------------
(* Properties of calculate_weekly_profit_factor, checked under SpecAgg *)

Range(f) == {f[i] : i \in DOMAIN f}

Last(s) == s[Len(s)]

RECURSIVE SumSeq(_)
SumSeq(s) == IF s = <<>> THEN 0 ELSE Head(s) + SumSeq(Tail(s))

Positive(n) == IF n > 0 THEN n ELSE 0

NonPositiveAbs(n) == IF n > 0 THEN 0 ELSE Abs(n)

\* the rows of report2 that were folded: inside the window, and not the row that raised
FoldedRows ==
    LET Kept(row) == row.date >= now - settings.analysis_weeks * HoursPerWeek
                     /\ row.pips.kind # "str"
    IN SelectSeq(report2, Kept)

\* the pips of the folded rows of one key, in encounter order (an empty cell counts 0)
PipsOfKey(key) ==
    LET Mine(row) == KeyOf(row) = key
        mine == SelectSeq(FoldedRows, Mine)
    IN [i \in 1..Len(mine) |-> IF mine[i].pips.kind = "num" THEN mine[i].pips.val ELSE 0]

SeenKeys == {KeyOf(report2[i]) : i \in 1..Len(report2)} \cup DOMAIN weekly_pf

\* C1: after every fold, every bucket's pf follows the three-case rule: 999.9 when
\* total_loss = 0 and total_profit > 0, 0 when both are 0, and
\* total_profit / total_loss when total_loss > 0
C1_PfThreeCases ==
    \A key \in DOMAIN weekly_pf :
        LET b == weekly_pf[key]
        IN /\ (b.total_loss = 0 /\ b.total_profit > 0) => PfEq(b.pf, [num |-> 9999, den |-> 10])
           /\ (b.total_loss = 0 /\ b.total_profit = 0) => PfEq(b.pf, [num |-> 0, den |-> 1])
           /\ b.total_loss > 0 => PfEq(b.pf, [num |-> b.total_profit, den |-> b.total_loss])

\* Scenario B, profits [10, 20] and no loss: pf = 999.9, in the middle of a pass
C1_Witness ==
    /\ pc = "aggregate"
    /\ \E key \in DOMAIN weekly_pf :
        /\ PipsOfKey(key) = <<10, 20>>
        /\ weekly_pf[key].total_loss = 0
        /\ weekly_pf[key].pf = [num |-> 9999, den |-> 10]

\* C2: a bucket exists exactly for the keys (name, weekday, int(point value)) of the
\* folded records; its total_profit is the sum of their positive pips, its total_loss
\* the sum of the absolute values of the others, trades their number and profit_pips
\* the pips of the last one
C2_BucketTotals ==
    \A key \in SeenKeys :
        LET pips == PipsOfKey(key)
        IN IF pips = <<>> THEN key \notin DOMAIN weekly_pf
           ELSE /\ key \in DOMAIN weekly_pf
                /\ weekly_pf[key].total_profit = SumSeq([i \in 1..Len(pips) |-> Positive(pips[i])])
                /\ weekly_pf[key].total_loss =
                       SumSeq([i \in 1..Len(pips) |-> NonPositiveAbs(pips[i])])
                /\ weekly_pf[key].trades = Len(pips)
                /\ weekly_pf[key].profit_pips = Last(pips)

\* Scenario A, profits [10, 20, -5]: total_profit = 30, total_loss = 5, pf = 6.0
C2_Witness ==
    \E key \in DOMAIN weekly_pf :
        /\ PipsOfKey(key) = <<10, 20, -5>>
        /\ weekly_pf[key].total_profit = 30
        /\ weekly_pf[key].total_loss = 5
        /\ PfEq(weekly_pf[key].pf, [num |-> 6, den |-> 1])
        /\ weekly_pf[key].profit_pips = -5

\* C8 as claimed: pf = 999.9 iff total_loss = 0 and total_profit > 0, and pf = 0 iff
\* total_profit = 0 and total_loss = 0
C8_Original ==
    \A key \in DOMAIN weekly_pf :
        LET b == weekly_pf[key]
        IN /\ PfEq(b.pf, [num |-> 9999, den |-> 10]) <=> (b.total_loss = 0 /\ b.total_profit > 0)
           /\ PfEq(b.pf, [num |-> 0, den |-> 1]) <=> (b.total_profit = 0 /\ b.total_loss = 0)

\* C8 as amended: pf = 0 iff total_profit = 0 (whatever total_loss is); pf = 999.9 iff
\* total_loss = 0 and total_profit > 0, or total_loss > 0 and the quotient
\* total_profit / total_loss is itself 999.9
C8_SentinelAndZero ==
    \A key \in DOMAIN weekly_pf :
        LET b == weekly_pf[key]
        IN /\ PfEq(b.pf, [num |-> 9999, den |-> 10])
                <=> \/ (b.total_loss = 0 /\ b.total_profit > 0)
                    \/ (b.total_loss > 0 /\ 10 * b.total_profit = 9999 * b.total_loss)
           /\ PfEq(b.pf, [num |-> 0, den |-> 1]) <=> b.total_profit = 0

\* a bucket of losses only reports pf 0, and another one reaches 999.9 as a quotient
C8_Witness ==
    /\ \E key \in DOMAIN weekly_pf :
        /\ weekly_pf[key].total_loss > 0
        /\ PfEq(weekly_pf[key].pf, [num |-> 0, den |-> 1])
    /\ \E key \in DOMAIN weekly_pf :
        /\ weekly_pf[key].total_loss > 0
        /\ PfEq(weekly_pf[key].pf, [num |-> 9999, den |-> 10])

\* C9 as claimed: a row inside the window whose pips cell is empty or is not a number
\* does not abort the pass and is folded as 0.0: one more trade, the totals as they
\* were, profit_pips 0
C9_Claim ==
    report2 # <<>> =>
        LET row == Last(report2)
            key == KeyOf(row)
            before == SubSeq(report2, 1, Len(report2) - 1)
            Same(r) == KeyOf(r) = key
                       /\ r.date >= now - settings.analysis_weeks * HoursPerWeek
            earlier == SelectSeq(before, Same)
            wins == [i \in 1..Len(earlier) |-> Positive(earlier[i].pips.val)]
            losses == [i \in 1..Len(earlier) |-> NonPositiveAbs(earlier[i].pips.val)]
        IN (row.date >= now - settings.analysis_weeks * HoursPerWeek /\ row.pips.kind # "num")
            => /\ pc # "error"
               /\ key \in DOMAIN weekly_pf
               /\ weekly_pf[key].trades = Len(earlier) + 1
               /\ weekly_pf[key].total_profit = SumSeq(wins)
               /\ weekly_pf[key].total_loss = SumSeq(losses)
               /\ weekly_pf[key].profit_pips = 0

----------------------------------------------------------------------------
(* Properties of extract_points_from_report1, checked under SpecExt *)

\* the instrument starts with or ends with "JPY"
CrossYenText(currency) ==
    /\ Len(currency) >= 3
    /\ \/ SubSeq(currency, 1, 3) = <<"J", "P", "Y">>
       \/ SubSeq(currency, Len(currency) - 2, Len(currency)) = <<"J", "P", "Y">>

\* the rank cell of a row is a number outside [1, 20]
OutOfRange(cell) == cell.kind = "num" /\ (cell.half < 2 \/ cell.half > 40)

Emitted(idx, pattern) ==
    \E i \in 1..Len(points) : points[i].row_index = idx /\ points[i].point_name = pattern

\* C7: every emitted candidate has an integer rank in [1, 20] and a cross-yen
\* instrument; a (row, strategy) pair whose rank is outside [1, 20], whose instrument is
\* not cross-yen or whose rank column is missing is emitted nowhere
C7_RankAndCrossYen ==
    /\ \A i \in 1..Len(points) :
        /\ points[i].ranking \in 1..20
        /\ CrossYenText(points[i].currency)
    /\ \A r \in 1..Len(report1), pattern \in TargetSet :
        (\/ OutOfRange(report1[r].rank[pattern])
         \/ ~CrossYenText(report1[r].currency)
         \/ pattern \notin columns)
            => ~Emitted(r - 1, pattern)

\* a returned extraction of a table without the MaxProfit column, holding a cross-yen row
\* with ranks 20.5, 1.5, 0 and 2 (one candidate, of rank 1) and a row of another instrument
C7_Witness ==
    /\ pc = "aggregate"
    /\ "MaxProfit" \notin columns
    /\ Len(points) = 1
    /\ points[1].ranking = 1
    /\ \E r \in 1..Len(report1) :
        /\ CrossYenText(report1[r].currency)
        /\ report1[r].rank["ProfitEff"] = Num(41)
        /\ report1[r].rank["MaxProfit"] = Num(4)
    /\ \E r \in 1..Len(report1) :
        /\ ~CrossYenText(report1[r].currency)
        /\ report1[r].rank["ProfitEff"] = Num(2)

\* C10 as claimed: a rank cell that is not a number is skipped for that (row, strategy)
\* pair only: the extraction does not fail, and the row's strategies with valid ranks
\* are emitted
C10_Claim ==
    \A r \in 1..Len(report1) :
        (/\ CrossYenText(report1[r].currency)
         /\ \E pattern \in columns : report1[r].rank[pattern].kind = "str")
            => /\ pc # "error"
               /\ \A pattern \in columns :
                    (/\ report1[r].rank[pattern].kind = "num"
                     /\ ~OutOfRange(report1[r].rank[pattern]))
                        => Emitted(r - 1, pattern)

----------------------------------------------------------------------------
(* Properties of select_optimal_points, checked under Spec *)

\* the outcome-side name of a candidate-side strategy name
MappedName(pattern) == IF pattern = "ProfitEff" THEN "ProfitEff_STD" ELSE pattern

\* the candidate has a bucket for the day, under the mapped name, with pf >= threshold
QualifiesOn(point, day) ==
    LET key == <<MappedName(point.point_name), day, point.ranking>>
    IN /\ key \in DOMAIN weekly_pf
       /\ weekly_pf[key].pf.num * settings.pf_threshold.den
            >= settings.pf_threshold.num * weekly_pf[key].pf.den

\* the candidate is in the shortlist of the day and of its strategy
Kept(point, day) ==
    \E i \in 1..Len(results[day][point.point_name]) :
        results[day][point.point_name][i].point_details = point

\* C3: every shortlist entry of (d, s) comes from a candidate of strategy s that has a
\* bucket at (pattern_mapping[s], d, rank) with pf >= pf_threshold, and carries that
\* bucket's pf, trades and profit_pips; a candidate without such a bucket has no entry
C3_EntriesFromMappedBuckets ==
    pc = "done" =>
        /\ \A day \in DaySet, pattern \in TargetSet :
            \A i \in 1..Len(results[day][pattern]) :
                LET e == results[day][pattern][i]
                    key == <<MappedName(pattern), day, e.ranking>>
                IN /\ e.point_details \in Range(points)
                   /\ e.point_details.point_name = pattern
                   /\ e.point_details.ranking = e.ranking
                   /\ QualifiesOn(e.point_details, day)
                   /\ e.pf = weekly_pf[key].pf
                   /\ e.trades = weekly_pf[key].trades
                   /\ e.profit_pips = weekly_pf[key].profit_pips
        /\ \A p \in Range(points), day \in DaySet : ~QualifiesOn(p, day) => ~Kept(p, day)

\* a shortlist entry of ProfitEff found under "ProfitEff_STD" while a bucket under the
\* candidate-side name "ProfitEff" exists too, and a candidate without a bucket
C3_Witness ==
    /\ pc = "done"
    /\ Len(results["Mon"]["ProfitEff"]) = 1
    /\ <<"ProfitEff", "Mon", 1>> \in DOMAIN weekly_pf
    /\ <<"ProfitEff_STD", "Mon", 1>> \in DOMAIN weekly_pf
    /\ \E p \in Range(points) : p.point_name = "ProfitEff" /\ p.ranking = 2

\* C4 as claimed: every shortlist has length <= max_results, whatever max_results is
C4_Original ==
    pc = "done" =>
        \A day \in DaySet, pattern \in TargetSet :
            Len(results[day][pattern]) <= settings.max_results

\* C4 as amended: every shortlist has length <= max_results when max_results >= 0
C4_LengthAtMostMaxResults ==
    (pc = "done" /\ settings.max_results >= 0) =>
        \A day \in DaySet, pattern \in TargetSet :
            Len(results[day][pattern]) <= settings.max_results

\* two candidates qualify for (Mon, ProfitEff) and max_results = 1 keeps one
C4_Witness ==
    /\ pc = "done"
    /\ settings.max_results = 1
    /\ Cardinality({i \in 1..Len(points) :
            points[i].point_name = "ProfitEff" /\ QualifiesOn(points[i], "Mon")}) = 2
    /\ Len(results["Mon"]["ProfitEff"]) = 1

\* hour * 60 + minute of an "HH:MM:SS" text, the hour 00 counted as 24
WrappedKey(time_str) ==
    LET hh == 10 * DigitVal(time_str[1]) + DigitVal(time_str[2])
        mm == 10 * DigitVal(time_str[4]) + DigitVal(time_str[5])
    IN (IF hh = 0 THEN 24 ELSE hh) * 60 + mm

\* C5: in every finalized shortlist the wrapped entry-time keys of consecutive entries
\* are non-decreasing
C5_TimeOrdered ==
    pc = "done" =>
        \A day \in DaySet, pattern \in TargetSet :
            \A i \in 1..(Len(results[day][pattern]) - 1) :
                WrappedKey(results[day][pattern][i].entry_time)
                    <= WrappedKey(results[day][pattern][i + 1].entry_time)

\* Scenario E: the candidate of 00:15 stands before the one of 23:30 in the table, and
\* the shortlist holds 23:30 first
C5_Witness ==
    /\ pc = "done"
    /\ Len(results["Mon"]["ProfitEff"]) = 2
    /\ results["Mon"]["ProfitEff"][1].entry_time = T_2330
    /\ results["Mon"]["ProfitEff"][2].entry_time = T_0015
    /\ results["Mon"]["ProfitEff"][2].point_details.row_index
         < results["Mon"]["ProfitEff"][1].point_details.row_index

\* the candidates p (kept) and q (cut) of one (day, strategy) that qualify with equal pf
TiedAcrossCut(p, q, day) ==
    /\ p.point_name = q.point_name
    /\ QualifiesOn(p, day) /\ QualifiesOn(q, day)
    /\ Kept(p, day) /\ ~Kept(q, day)
    /\ LET a == weekly_pf[<<MappedName(p.point_name), day, p.ranking>>].pf
           b == weekly_pf[<<MappedName(q.point_name), day, q.ranking>>].pf
       IN a.num * b.den = b.num * a.den

\* C6 as claimed: among candidates tied on pf, the ones kept stand before the ones cut
\* in the order of the rows of the source table
C6_Original ==
    pc = "done" =>
        \A day \in DaySet : \A p, q \in Range(points) :
            TiedAcrossCut(p, q, day) => p.row_index < q.row_index

\* C6 as amended: among candidates tied on pf, the ones kept stand before the ones cut
\* in the order of the extracted list: ascending rank, and row order within a rank
C6_TiesKeepExtractedOrder ==
    pc = "done" =>
        \A day \in DaySet : \A p, q \in Range(points) :
            TiedAcrossCut(p, q, day) =>
                \/ p.ranking < q.ranking
                \/ (p.ranking = q.ranking /\ p.row_index < q.row_index)

\* max_results = 1 cuts between two tied candidates, and the one kept (rank 1) comes
\* from a later row than the one cut (rank 2)
C6_Witness ==
    /\ pc = "done"
    /\ settings.max_results = 1
    /\ \E p, q \in Range(points) :
        /\ TiedAcrossCut(p, q, "Mon")
        /\ p.ranking < q.ranking
        /\ q.row_index < p.row_index

----------------------------------------------------------------------------
(* Properties of select_optimal_points, checked under SpecCut *)

\* the entry a stands before the entry b in the list the time sort receives: higher pf
\* first, then lower rank, then earlier row
PfOrderBefore(a, b) ==
    \/ a.pf.num * b.pf.den > b.pf.num * a.pf.den
    \/ /\ a.pf.num * b.pf.den = b.pf.num * a.pf.den
       /\ \/ a.ranking < b.ranking
          \/ (a.ranking = b.ranking /\ a.point_details.row_index < b.point_details.row_index)

\* C11 as claimed: no two adjacent entries of a shortlist have equal wrapped entry-time
\* keys, the earlier key is strictly smaller
C11_Original ==
    pc = "done" =>
        \A day \in DaySet, pattern \in TargetSet :
            \A i \in 1..(Len(results[day][pattern]) - 1) :
                WrappedKey(results[day][pattern][i].entry_time)
                    < WrappedKey(results[day][pattern][i + 1].entry_time)

\* C11 as amended: of two adjacent entries the earlier has the smaller key, or the same
\* key, and then it is the one the profit-factor order placed first (higher pf, then
\* lower rank, then earlier row): entries of equal key are all kept
C11_TimeThenPfOrder ==
    pc = "done" =>
        \A day \in DaySet, pattern \in TargetSet :
            \A i \in 1..(Len(results[day][pattern]) - 1) :
                LET a == results[day][pattern][i]
                    b == results[day][pattern][i + 1]
                IN \/ WrappedKey(a.entry_time) < WrappedKey(b.entry_time)
                   \/ /\ WrappedKey(a.entry_time) = WrappedKey(b.entry_time)
                      /\ PfOrderBefore(a, b)

\* two candidates of different instruments share the entry time 00:15 and both stand in
\* the shortlist, next to each other
C11_Witness ==
    /\ pc = "done"
    /\ \E i \in 1..(Len(results["Mon"]["ProfitEff"]) - 1) :
        LET a == results["Mon"]["ProfitEff"][i]
            b == results["Mon"]["ProfitEff"][i + 1]
        IN /\ a.entry_time = T_0015 /\ b.entry_time = T_0015
           /\ a.currency # b.currency

\* the entry repeats the candidate fields and the rank of the other entry
SameCandidateFields(a, b) ==
    /\ a.currency = b.currency
    /\ a.entry_time = b.entry_time
    /\ a.close_time = b.close_time
    /\ a.direction = b.direction
    /\ a.ranking = b.ranking

\* the rows of the source table that carry the fields of the entry e and, for the
\* strategy, a rank cell worth the rank of e
SourceRowsOf(e, pattern) ==
    {r \in 1..Len(report1) :
        /\ report1[r].currency = e.currency
        /\ report1[r].entry_time = e.entry_time
        /\ report1[r].close_time = e.close_time
        /\ report1[r].direction = e.direction
        /\ report1[r].rank[pattern].kind = "num"
        /\ report1[r].rank[pattern].half \in {2 * e.ranking, 2 * e.ranking + 1}}

\* C12 as claimed: no shortlist holds two entries with identical (currency, entry_time,
\* close_time, direction) and the same rank, whatever rows the source table repeats
C12_Original ==
    pc = "done" =>
        \A day \in DaySet, pattern \in TargetSet :
            \A i, j \in 1..Len(results[day][pattern]) :
                SameCandidateFields(results[day][pattern][i], results[day][pattern][j])
                    => i = j

\* C12 as amended: a shortlist holds at most as many entries with given (currency,
\* entry_time, close_time, direction) and rank as the source table has rows with those
\* fields and that rank for the strategy: an entry is repeated only when its row is
C12_RepeatsOnlyFromRepeatedRows ==
    pc = "done" =>
    \A day \in DaySet, pattern \in TargetSet :
        \A i \in 1..Len(results[day][pattern]) :
            LET e == results[day][pattern][i]
                same == {j \in 1..Len(results[day][pattern]) :
                            SameCandidateFields(results[day][pattern][j], e)}
            IN Cardinality(same) <= Cardinality(SourceRowsOf(e, pattern))

\* the source table holds the same row twice and the shortlist holds its entry twice
C12_Witness ==
    /\ pc = "done"
    /\ Len(report1) = 2
    /\ report1[1] = report1[2]
    /\ Len(results["Mon"]["ProfitEff"]) = 2
    /\ SameCandidateFields(results["Mon"]["ProfitEff"][1], results["Mon"]["ProfitEff"][2])

\* the candidates of a strategy that qualify on a day
Qualifying(day, pattern) ==
    {p \in Range(points) : p.point_name = pattern /\ QualifiesOn(p, day)}

\* the candidates of a strategy that stand in the shortlist of a day
KeptSet(day, pattern) ==
    {results[day][pattern][i].point_details : i \in 1..Len(results[day][pattern])}

PfOf(p, day) == weekly_pf[<<MappedName(p.point_name), day, p.ranking>>].pf

\* the shortlist is k of the qualifying candidates, each once, and no candidate left out
\* has a higher pf than a kept one
TopByPf(day, pattern, k) ==
    LET kept == KeptSet(day, pattern)
        left == Qualifying(day, pattern) \ kept
    IN /\ kept \subseteq Qualifying(day, pattern)
       /\ Len(results[day][pattern]) = k
       /\ Cardinality(kept) = k
       /\ \A p \in kept, q \in left :
            PfOf(q, day).num * PfOf(p, day).den <= PfOf(p, day).num * PfOf(q, day).den

Min(a, b) == IF a < b THEN a ELSE b

\* C13 as claimed: every finalized shortlist is, as a set, the min(max_results, n)
\* qualifying points of highest pf, n being the number of qualifying points
C13_Original ==
    pc = "done" =>
        \A day \in DaySet, pattern \in TargetSet :
            TopByPf(day, pattern,
                    Min(settings.max_results, Cardinality(Qualifying(day, pattern))))

\* C13 as amended: every finalized shortlist is, as a set, the k qualifying points of
\* highest pf, with k = min(max_results, n) when max_results >= 0 and
\* k = max(0, n + max_results) when max_results < 0; the time order adds and removes
\* nothing
C13_TopByPfThenTime ==
    pc = "done" =>
        \A day \in DaySet, pattern \in TargetSet :
            LET n == Cardinality(Qualifying(day, pattern))
                m == settings.max_results
            IN TopByPf(day, pattern,
                       IF m >= 0 THEN Min(m, n) ELSE (IF n + m > 0 THEN n + m ELSE 0))

\* max_results = 1 cuts between a candidate of rank 1 with pf 1.3 and one of rank 2 with
\* pf 999.9: the one of rank 2, later in the candidate list, is kept
C13_Witness ==
    /\ pc = "done"
    /\ settings.max_results = 1
    /\ Cardinality(Qualifying("Mon", "ProfitEff")) = 2
    /\ \E p \in KeptSet("Mon", "ProfitEff"), q \in Qualifying("Mon", "ProfitEff") :
        /\ p.ranking = 2 /\ q.ranking = 1
        /\ PfOf(p, "Mon") = [num |-> 9999, den |-> 10]
        /\ PfOf(q, "Mon") = [num |-> 13, den |-> 10]

====
